---- MODULE Spec2Model ----
(***************************************************************************)
(* Model of src/app.py: the forward simulator calculate_exit_time and the  *)
(* reverse simulator calculate_short_friday_net_minutes of the CLT shift   *)
(* calculator, with the helpers they use.                                  *)
(*                                                                         *)
(* A datetime is the number of minutes since the base date 2023-01-01      *)
(* 00:00 (time_to_datetime), a time is a record [hour, minute], a          *)
(* timedelta is a number of minutes.  A Python float (IEEE-754 binary64)   *)
(* is a triple <<ip, f1, f0>> standing for ip + (f1 * 2^26 + f0) / 2^52:   *)
(* every float the simulators produce is 0 or at least 1 and below 4096,   *)
(* so it is a multiple of 2^-52, and its 53-bit significand leaves the     *)
(* lowest e bits of f0 zero when 2^e <= ip < 2^(e+1).                       *)
(***************************************************************************)
EXTENDS Integers, Sequences, FiniteSets, TLC

VARIABLES pc, entrada, saida, intervalo_minutos, jornada_diaria_minutos,
          t_entrada, t_saida, current_dt, real_minutes_worked,
          effective_minutes_worked, intervalo_start_dt, intervalo_applied,
          ret, chamada_anterior

vars == <<pc, entrada, saida, intervalo_minutos, jornada_diaria_minutos,
          t_entrada, t_saida, current_dt, real_minutes_worked,
          effective_minutes_worked, intervalo_start_dt, intervalo_applied,
          ret, chamada_anterior>>

\* an optional value is a sequence of at most one element
None == <<>>
Some(x) == <<x>>

(***************************************************************************)
(* Python float arithmetic                                                 *)
(***************************************************************************)
Limb == 2^26

Float(n) == <<n, 0, 0>>

\* n + 0.5 as a float
FloatHalf(n) == <<n, Limb \div 2, 0>>

RECURSIVE Pow2Floor(_)
Pow2Floor(n) == IF n < 2 THEN 1 ELSE 2 * Pow2Floor(n \div 2)

FCarry(x) ==
    LET c0 == x[3] \div Limb
        s1 == x[2] + c0
        c1 == s1 \div Limb
    IN  <<x[1] + c1, s1 % Limb, x[3] % Limb>>

\* round an exact sum to a 53-bit significand, ties to even
FRound(x) ==
    LET q == Pow2Floor(x[1])
        r == x[3] % q
        down == x[3] - r
        odd == (x[3] \div q) % 2 = 1
        up == (2 * r > q) \/ (2 * r = q /\ odd)
    IN  IF r = 0 THEN x
        ELSE IF up THEN FCarry(<<x[1], x[2], down + q>>)
        ELSE <<x[1], x[2], down>>

\* a + b on floats
FAdd(a, b) == FRound(FCarry(<<a[1] + b[1], a[2] + b[2], a[3] + b[3]>>))

\* a < b on floats
FLess(a, b) ==
    \/ a[1] < b[1]
    \/ a[1] = b[1] /\ a[2] < b[2]
    \/ a[1] = b[1] /\ a[2] = b[2] /\ a[3] < b[3]

FGeq(a, b) == ~FLess(a, b)

(***************************************************************************)
(* Constants of the program                                                *)
(***************************************************************************)
\* 60 / 52.5 = 0x1.2492492492492p+0 = 1.1428571428571428
FATOR_HORA_NOTURNA == <<1, 9586980, 38347922>>
INICIO_NOITE == 22
FIM_NOITE == 5
\* the break threshold of both simulators
LIMIAR_INTERVALO == 240
\* the safety bound of the forward simulator
LIMITE_SEGURO == 2000

(***************************************************************************)
(* Inputs the callers draw from                                            *)
(***************************************************************************)
\* every whole target from 0 to MaxJornadaDensa is tried
MaxJornadaDensa == 8
\* every reverse span of 1..MaxSpanDenso minutes from 22:00 is tried
MaxSpanDenso == 8

Time(h, m) == [hour |-> h, minute |-> m]

Entradas == {Time(8, 0), Time(13, 30), Time(21, 59), Time(22, 0),
             Time(23, 30), Time(4, 10)}

Intervalos == {0, 60, 1800}

Jornadas == {Float(n) : n \in 0..MaxJornadaDensa}
            \cup {Float(n) : n \in {90, 108, 240, 241, 528, 720, 2500}}
            \cup {FloatHalf(528)}

Saidas == {Time(22, m) : m \in 1..MaxSpanDenso}
          \cup {Time(10, 0), Time(12, 0), Time(12, 30), Time(13, 0),
                Time(14, 0), Time(23, 34), Time(0, 0), Time(2, 0),
                Time(4, 10), Time(5, 0), Time(8, 0)}

(***************************************************************************)
(* Helpers                                                                 *)
(***************************************************************************)
MinutesPerDay == 24 * 60

\* datetime.hour, datetime.minute and the date's offset from the base date
Hour(dt) == (dt % MinutesPerDay) \div 60
Minute(dt) == dt % 60
DayOf(dt) == dt \div MinutesPerDay

\* dt.strftime("%H:%M"): the date is dropped
strftime(dt) == <<Hour(dt), Minute(dt)>>

\* timedelta(minutes=x) for an int x and for a float x, in whole seconds
\* (format_timedelta truncates to whole seconds)
timedelta_int(x) == 60 * x
timedelta_float(x) == 60 * x[1] + (15 * x[2]) \div (Limb \div 4)

format_timedelta(total_seconds) ==
    LET hours == total_seconds \div 3600
        remainder == total_seconds % 3600
    IN  <<hours, remainder \div 60>>

\* the minute is forgotten in base_date.replace
time_to_datetime_SemMinuto(t, date_offset) ==
    date_offset * MinutesPerDay + t.hour * 60

time_to_datetime(t, date_offset) ==
    date_offset * MinutesPerDay + t.hour * 60 + t.minute

\* parse_input_to_time applied to a string the forward simulator returned
parse_input_to_time(str) ==
    IF str.suffix # "" THEN None
    ELSE IF str.hhmm[1] \in 0..23 /\ str.hhmm[2] \in 0..59
         THEN Some(Time(str.hhmm[1], str.hhmm[2]))
         ELSE None

\* the hour 22 is taken for a day hour
is_night_time_Depois(current_hour) ==
    (current_hour > INICIO_NOITE) \/ (current_hour < FIM_NOITE)

is_night_time(current_hour) ==
    (current_hour >= INICIO_NOITE) \/ (current_hour < FIM_NOITE)

\* the night factor is never applied
Incremento_SemNoturna(dt) == Float(1)

\* the effective minutes one worked minute at current_dt adds
Incremento(dt) ==
    IF is_night_time(Hour(dt)) THEN FATOR_HORA_NOTURNA ELSE Float(1)

(***************************************************************************)
(* calculate_exit_time                                                     *)
(***************************************************************************)
Init ==
    /\ pc = "main"
    /\ entrada = Time(0, 0)
    /\ saida = None
    /\ intervalo_minutos = 0
    /\ jornada_diaria_minutos = Float(0)
    /\ t_entrada = 0
    /\ t_saida = 0
    /\ current_dt = 0
    /\ real_minutes_worked = 0
    /\ effective_minutes_worked = Float(0)
    /\ intervalo_start_dt = None
    /\ intervalo_applied = FALSE
    /\ ret = None
    /\ chamada_anterior = None

\* lines 73-84: the locals of a call
ExitTimeBegin(e, b, T) ==
    /\ pc' = "fwd_loop"
    /\ entrada' = e
    /\ saida' = None
    /\ intervalo_minutos' = b
    /\ jornada_diaria_minutos' = T
    /\ t_entrada' = time_to_datetime(e, 0)
    /\ t_saida' = 0
    /\ current_dt' = time_to_datetime(e, 0)
    /\ real_minutes_worked' = 0
    /\ effective_minutes_worked' = Float(0)
    /\ intervalo_start_dt' = None
    /\ intervalo_applied' = FALSE
    /\ ret' = None

\* main calls calculate_exit_time(entrada, intervalo_minutos, shift_minutes)
CallExitTime ==
    /\ pc = "main"
    /\ \E e \in Entradas, b \in Intervalos, T \in Jornadas :
          ExitTimeBegin(e, b, T)
    /\ chamada_anterior' = None

\* a second call with the same entry and break and a larger target; the
\* caller keeps the first call's target and exit instant
CallExitTimeAgain ==
    /\ pc = "fwd_done"
    /\ chamada_anterior = None
    /\ \E T \in Jornadas :
          /\ FLess(jornada_diaria_minutos, T)
          /\ ExitTimeBegin(entrada, intervalo_minutos, T)
    /\ chamada_anterior' = Some([jornada |-> jornada_diaria_minutos,
                                 saida_dt |-> current_dt])

\* the loop runs until the accumulator equals the target
LoopCond_Diferente == effective_minutes_worked # jornada_diaria_minutos

LoopCond == FLess(effective_minutes_worked, jornada_diaria_minutos)

\* the safety bound with one zero too many
SafetyCond_Largo == real_minutes_worked > 10 * LIMITE_SEGURO

SafetyCond == real_minutes_worked > LIMITE_SEGURO

\* the break only once the accumulator exceeds the threshold
BreakCond_Estrito ==
    /\ FLess(Float(LIMIAR_INTERVALO), effective_minutes_worked)
    /\ intervalo_start_dt = None
    /\ intervalo_minutos > 0

\* the single-shot test is forgotten
BreakCond_Repetido ==
    /\ FGeq(effective_minutes_worked, Float(LIMIAR_INTERVALO))
    /\ intervalo_minutos > 0

BreakCond ==
    /\ FGeq(effective_minutes_worked, Float(LIMIAR_INTERVALO))
    /\ intervalo_start_dt = None
    /\ intervalo_minutos > 0

\* line 87: the loop condition fails
FwdLoopEnd ==
    /\ pc = "fwd_loop"
    /\ ~LoopCond
    /\ pc' = "fwd_saida"
    /\ UNCHANGED <<entrada, saida, intervalo_minutos, jornada_diaria_minutos,
                   t_entrada, t_saida, current_dt, real_minutes_worked,
                   effective_minutes_worked, intervalo_start_dt,
                   intervalo_applied, ret, chamada_anterior>>

\* lines 89-90: the safety bound
FwdSafetyStop ==
    /\ pc = "fwd_loop"
    /\ LoopCond
    /\ SafetyCond
    /\ pc' = "fwd_saida"
    /\ UNCHANGED <<entrada, saida, intervalo_minutos, jornada_diaria_minutos,
                   t_entrada, t_saida, current_dt, real_minutes_worked,
                   effective_minutes_worked, intervalo_start_dt,
                   intervalo_applied, ret, chamada_anterior>>

\* lines 103-108: the break is inserted
FwdInsereIntervalo ==
    /\ pc = "fwd_loop"
    /\ LoopCond
    /\ ~SafetyCond
    /\ BreakCond
    /\ intervalo_start_dt' = Some(current_dt)
    /\ current_dt' = current_dt + intervalo_minutos
    /\ real_minutes_worked' = real_minutes_worked + intervalo_minutos
    /\ UNCHANGED <<pc, entrada, saida, intervalo_minutos,
                   jornada_diaria_minutos, t_entrada, t_saida,
                   effective_minutes_worked, intervalo_applied, ret,
                   chamada_anterior>>

\* lines 111-120: one worked minute
FwdContaMinuto ==
    /\ pc = "fwd_loop"
    /\ LoopCond
    /\ ~SafetyCond
    /\ ~BreakCond
    /\ effective_minutes_worked' =
          FAdd(effective_minutes_worked, Incremento(current_dt))
    /\ current_dt' = current_dt + 1
    /\ real_minutes_worked' = real_minutes_worked + 1
    /\ UNCHANGED <<pc, entrada, saida, intervalo_minutos,
                   jornada_diaria_minutos, t_entrada, t_saida,
                   intervalo_start_dt, intervalo_applied, ret,
                   chamada_anterior>>

\* lines 126-136
IntervaloStr ==
    IF intervalo_start_dt # None
    THEN LET start_dt == intervalo_start_dt[1]
             intervalo_fim_dt == start_dt + intervalo_minutos
         IN  [inicio |-> strftime(start_dt),
              fim |-> strftime(intervalo_fim_dt),
              fim_suffix |-> IF intervalo_fim_dt < start_dt
                             THEN " (+1D)" ELSE "",
              duracao |-> format_timedelta(timedelta_int(intervalo_minutos))]
    ELSE [duracao |-> format_timedelta(timedelta_int(intervalo_minutos))]

\* lines 139-142
SaidaStr ==
    LET saida_dt == current_dt
    IN  [hhmm |-> strftime(saida_dt),
         suffix |-> IF saida_dt < t_entrada THEN " (+1D)" ELSE ""]

\* lines 123-146: the strings returned
FwdReturn ==
    /\ pc = "fwd_saida"
    /\ pc' = "fwd_done"
    /\ ret' = Some([saida_str |-> SaidaStr,
                    intervalo_str |-> IntervaloStr,
                    jornada_liquida_formatada |->
                        format_timedelta(
                            timedelta_float(jornada_diaria_minutos))])
    /\ UNCHANGED <<entrada, saida, intervalo_minutos, jornada_diaria_minutos,
                   t_entrada, t_saida, current_dt, real_minutes_worked,
                   effective_minutes_worked, intervalo_start_dt,
                   intervalo_applied, chamada_anterior>>

(***************************************************************************)
(* calculate_short_friday_net_minutes                                      *)
(***************************************************************************)
\* lines 157-169: the locals of a call
NetMinutesBegin(e, s, b) ==
    LET te == time_to_datetime(e, 0)
        ts == time_to_datetime(s, 0)
    IN  /\ pc' = "rev_loop"
        /\ entrada' = e
        /\ saida' = Some(s)
        /\ intervalo_minutos' = b
        /\ t_entrada' = te
        /\ t_saida' = IF ts <= te THEN ts + MinutesPerDay ELSE ts
        /\ current_dt' = te
        /\ real_minutes_worked' = 0
        /\ effective_minutes_worked' = Float(0)
        /\ intervalo_applied' = FALSE
        /\ intervalo_start_dt' = None
        /\ ret' = None

\* main calls calculate_short_friday_net_minutes(entrada, saida_sexta_time,
\* intervalo_minutos)
CallNetMinutes ==
    /\ pc = "main"
    /\ \E e \in Entradas, s \in Saidas, b \in Intervalos :
          NetMinutesBegin(e, s, b)
    /\ UNCHANGED <<jornada_diaria_minutos, chamada_anterior>>

\* the exit string of a forward call is parsed and given to the reverse
\* simulator with the same entry and break
CallNetMinutesOnExit ==
    /\ pc = "fwd_done"
    /\ chamada_anterior = None
    /\ parse_input_to_time(ret[1].saida_str) # None
    /\ NetMinutesBegin(entrada, parse_input_to_time(ret[1].saida_str)[1],
                       intervalo_minutos)
    /\ chamada_anterior' = Some([jornada |-> jornada_diaria_minutos,
                                 saida_dt |-> current_dt])
    /\ UNCHANGED jornada_diaria_minutos

\* the break only once the real minutes exceed the threshold
RevBreakCond_Estrito ==
    /\ real_minutes_worked > LIMIAR_INTERVALO
    /\ ~intervalo_applied
    /\ intervalo_minutos > 0

RevBreakCond ==
    /\ real_minutes_worked >= LIMIAR_INTERVALO
    /\ ~intervalo_applied
    /\ intervalo_minutos > 0

\* lines 171-193: one iteration of the loop
RevIteracao ==
    /\ pc = "rev_loop"
    /\ current_dt < t_saida
    /\ LET dt1 == IF RevBreakCond THEN current_dt + intervalo_minutos
                  ELSE current_dt
           real1 == IF RevBreakCond
                    THEN real_minutes_worked + intervalo_minutos
                    ELSE real_minutes_worked
       IN  /\ intervalo_applied' = (intervalo_applied \/ RevBreakCond)
           /\ IF dt1 >= t_saida
              THEN \* lines 177-181: break out of the loop
                   /\ pc' = "rev_saida"
                   /\ current_dt' = dt1
                   /\ real_minutes_worked' = real1
                   /\ UNCHANGED effective_minutes_worked
              ELSE \* lines 183-193: one worked minute
                   /\ pc' = "rev_loop"
                   /\ effective_minutes_worked' =
                         FAdd(effective_minutes_worked, Incremento(dt1))
                   /\ current_dt' = dt1 + 1
                   /\ real_minutes_worked' = real1 + 1
    /\ UNCHANGED <<entrada, saida, intervalo_minutos, jornada_diaria_minutos,
                   t_entrada, t_saida, intervalo_start_dt, ret,
                   chamada_anterior>>

\* line 171: the loop condition fails
RevLoopEnd ==
    /\ pc = "rev_loop"
    /\ ~(current_dt < t_saida)
    /\ pc' = "rev_saida"
    /\ UNCHANGED <<entrada, saida, intervalo_minutos, jornada_diaria_minutos,
                   t_entrada, t_saida, current_dt, real_minutes_worked,
                   effective_minutes_worked, intervalo_start_dt,
                   intervalo_applied, ret, chamada_anterior>>

\* line 195
RevReturn ==
    /\ pc = "rev_saida"
    /\ pc' = "rev_done"
    /\ ret' = Some(effective_minutes_worked)
    /\ UNCHANGED <<entrada, saida, intervalo_minutos, jornada_diaria_minutos,
                   t_entrada, t_saida, current_dt, real_minutes_worked,
                   effective_minutes_worked, intervalo_start_dt,
                   intervalo_applied, chamada_anterior>>

Next ==
    \/ CallExitTime
    \/ CallExitTimeAgain
    \/ CallNetMinutes
    \/ CallNetMinutesOnExit
    \/ RevIteracao
    \/ RevLoopEnd
    \/ RevReturn
    \/ FwdLoopEnd
    \/ FwdSafetyStop
    \/ FwdInsereIntervalo
    \/ FwdContaMinuto
    \/ FwdReturn

Spec == Init /\ [][Next]_vars

\* One call of calculate_exit_time, from the state lines 73-84 leave to
\* its return; a step of the call that is enabled is taken.
EntradasTerminacao == {Time(8, 0), Time(22, 0)}

JornadasTerminacao == {Float(0), Float(241), Float(720), Float(2500)}

InitExitTime ==
    \E e \in EntradasTerminacao, b \in Intervalos,
       T \in JornadasTerminacao :
        /\ pc = "fwd_loop"
        /\ entrada = e
        /\ saida = None
        /\ intervalo_minutos = b
        /\ jornada_diaria_minutos = T
        /\ t_entrada = time_to_datetime(e, 0)
        /\ t_saida = 0
        /\ current_dt = time_to_datetime(e, 0)
        /\ real_minutes_worked = 0
        /\ effective_minutes_worked = Float(0)
        /\ intervalo_start_dt = None
        /\ intervalo_applied = FALSE
        /\ ret = None
        /\ chamada_anterior = None

NextExitTime ==
    \/ FwdLoopEnd
    \/ FwdSafetyStop
    \/ FwdInsereIntervalo
    \/ FwdContaMinuto
    \/ FwdReturn

SpecExitTime ==
    InitExitTime /\ [][NextExitTime]_vars /\ WF_vars(NextExitTime)

(***************************************************************************)
(* Properties                                                              *)
(***************************************************************************)
\* first minute of the day hours and of the night, as minutes of the day
InicioDia == FIM_NOITE * 60
FimDia == INICIO_NOITE * 60

\* C1: a forward call that ends on a later calendar day than the entry
\* returns the exit with the " (+1D)" marker, and an exit on the entry day
\* never carries it.
C1_NextDayFlag ==
    pc = "fwd_done" =>
        ((ret[1].saida_str.suffix = " (+1D)")
            <=> (DayOf(current_dt) > DayOf(t_entrada)))

\* C2: a forward call that left its loop on the safety bound, the
\* accumulator still below the target, returns something other than an
\* ordinary exit time.
C2_TruncationTagged ==
    (pc = "fwd_done"
        /\ FLess(effective_minutes_worked, jornada_diaria_minutos))
    => ret[1].saida_str
          \notin [hhmm : (0..23) \X (0..59), suffix : {"", " (+1D)"}]

\* C3: with a whole target T and every simulated minute in the day hours of
\* the entry day, the exit is entry + T with no break window when T <= 240
\* or the break is 0, and entry + T + break with the break window
\* [entry + 240, entry + 240 + break] otherwise.
C3_DayShift ==
    LET T == jornada_diaria_minutos[1]
        B == intervalo_minutos
        comIntervalo == T > 240 /\ B > 0
        X == IF comIntervalo THEN t_entrada + T + B ELSE t_entrada + T
    IN  (pc = "fwd_done"
            /\ jornada_diaria_minutos = Float(T)
            /\ t_entrada >= InicioDia
            /\ X <= FimDia)
        => /\ current_dt = X
           /\ ret[1].saida_str = [hhmm |-> strftime(X), suffix |-> ""]
           /\ IF comIntervalo
              THEN /\ intervalo_start_dt = Some(t_entrada + 240)
                   /\ ret[1].intervalo_str.inicio = strftime(t_entrada + 240)
                   /\ ret[1].intervalo_str.fim
                         = strftime(t_entrada + 240 + B)
              ELSE /\ intervalo_start_dt = None
                   /\ DOMAIN ret[1].intervalo_str = {"duracao"}

C3_Witness ==
    /\ pc = "fwd_done"
    /\ entrada = Time(8, 0)
    /\ intervalo_minutos = 60
    /\ jornada_diaria_minutos = Float(528)
    /\ ret[1].saida_str.hhmm = <<17, 48>>
    /\ ret[1].intervalo_str.inicio = <<12, 0>>
    /\ ret[1].intervalo_str.fim = <<13, 0>>

\* C4: for an entry and an exit in the day hours of one day, L real minutes
\* apart, and a break B > 0, the reverse simulator returns L when L <= 240,
\* 240 when 240 < L < 240 + B, and L - B when L >= 240 + B.
C4_ReverseDay ==
    LET L == t_saida - t_entrada
        B == intervalo_minutos
    IN  (pc = "rev_done"
            /\ B > 0
            /\ Hour(t_entrada) \in FIM_NOITE..(INICIO_NOITE - 1)
            /\ Hour(t_saida) \in FIM_NOITE..(INICIO_NOITE - 1)
            /\ DayOf(t_saida) = DayOf(t_entrada))
        => ret[1] = Float(IF L <= 240 THEN L
                          ELSE IF L < 240 + B THEN 240
                          ELSE L - B)

C4_Witness ==
    /\ pc = "rev_done"
    /\ entrada = Time(8, 0)
    /\ saida = Some(Time(14, 0))
    /\ intervalo_minutos = 60
    /\ ret = Some(Float(300))

\* C5: for one entry and one break, a call with the larger target never
\* exits earlier (in real minutes since the entry) than the call with the
\* smaller target.
C5_Monotone ==
    (pc = "fwd_done" /\ chamada_anterior # None
        /\ FLess(chamada_anterior[1].jornada, jornada_diaria_minutos))
    => chamada_anterior[1].saida_dt - t_entrada <= current_dt - t_entrada

\* the targets 240 and 241 with a break, over the start of the night: the
\* second call exits later
C5_Witness ==
    /\ pc = "fwd_done"
    /\ chamada_anterior # None
    /\ chamada_anterior[1].jornada = Float(240)
    /\ jornada_diaria_minutos = Float(241)
    /\ intervalo_minutos = 60
    /\ entrada = Time(21, 59)
    /\ chamada_anterior[1].saida_dt < current_dt

\* C6 as stated: with break 0 and the whole shift in day hours, the reverse
\* simulator applied to the forward simulator's exit returns the target T,
\* rounded up to the whole minute (T <= result < T + 1).
C6_RoundTrip ==
    (pc = "rev_done" /\ chamada_anterior # None
        /\ intervalo_minutos = 0
        /\ t_entrada >= InicioDia
        /\ chamada_anterior[1].saida_dt <= FimDia)
    => /\ FGeq(ret[1], jornada_diaria_minutos)
       /\ FLess(ret[1], FAdd(jornada_diaria_minutos, Float(1)))

\* C6 amended: the same for every target T > 0.
C6_RoundTripPositive ==
    (pc = "rev_done" /\ chamada_anterior # None
        /\ intervalo_minutos = 0
        /\ t_entrada >= InicioDia
        /\ chamada_anterior[1].saida_dt <= FimDia
        /\ FLess(Float(0), jornada_diaria_minutos))
    => /\ FGeq(ret[1], jornada_diaria_minutos)
       /\ FLess(ret[1], FAdd(jornada_diaria_minutos, Float(1)))

C6_Witness ==
    /\ pc = "rev_done"
    /\ chamada_anterior # None
    /\ intervalo_minutos = 0
    /\ entrada = Time(8, 0)
    /\ jornada_diaria_minutos = FloatHalf(528)
    /\ saida = Some(Time(16, 49))
    /\ ret = Some(Float(529))

\* C7 as stated: a reverse call whose whole span of D real minutes lies in
\* the night window and takes no break (break 0 or D <= 240) returns exactly
\* 8D/7.  7 is odd, so a float equals 8D/7 only when 7 divides D and the
\* float is the whole number 8D/7.
C7_NightExact ==
    LET D == t_saida - t_entrada
        fimNoite == IF t_entrada >= FimDia THEN MinutesPerDay + InicioDia
                    ELSE InicioDia
    IN  (pc = "rev_done"
            /\ (t_entrada >= FimDia \/ t_entrada < InicioDia)
            /\ t_saida <= fimNoite
            /\ (intervalo_minutos = 0 \/ D <= 240))
        => (D % 7 = 0 /\ ret[1] = Float((8 * D) \div 7))

\* C7 amended: the result is 8D/7 to within floating rounding: it differs
\* from 8D/7 by less than 2^-19 of a minute.  With k the whole part of 8D/7
\* and r the remainder, 7 * (result - k) - r is compared in units of 2^-26.
C7_NightWithinRounding ==
    LET D == t_saida - t_entrada
        fimNoite == IF t_entrada >= FimDia THEN MinutesPerDay + InicioDia
                    ELSE InicioDia
        k == (8 * D) \div 7
        r == (8 * D) % 7
        x == ret[1]
        err == 7 * ((x[1] - k) * Limb + x[2]) - r * Limb
    IN  (pc = "rev_done"
            /\ (t_entrada >= FimDia \/ t_entrada < InicioDia)
            /\ t_saida <= fimNoite
            /\ (intervalo_minutos = 0 \/ D <= 240))
        => /\ x[1] - k \in {-1, 0, 1}
           /\ err <= 7 * 2^6
           /\ -err <= 7 * 2^6

\* seven night minutes from 22:00 return 7.999999999999998
C7_Witness ==
    /\ pc = "rev_done"
    /\ entrada = Time(22, 0)
    /\ saida = Some(Time(22, 7))
    /\ intervalo_minutos = 0
    /\ ret = Some(<<7, Limb - 1, Limb - 8>>)

\* C8 as stated: for a night entry, break 0 and a whole target T whose shift
\* stays in the night window, the forward simulator works m real minutes,
\* m the first whole minute with m * 60/52.5 >= T (8m >= 7T > 8(m - 1)).
C8_NightFirstMinute ==
    LET T == jornada_diaria_minutos[1]
        m == current_dt - t_entrada
        fimNoite == IF t_entrada >= FimDia THEN MinutesPerDay + InicioDia
                    ELSE InicioDia
    IN  (pc = "fwd_done"
            /\ jornada_diaria_minutos = Float(T)
            /\ intervalo_minutos = 0
            /\ (t_entrada >= FimDia \/ t_entrada < InicioDia)
            /\ current_dt <= fimNoite)
        => /\ 8 * m >= 7 * T
           /\ 8 * (m - 1) < 7 * T

\* C8 amended: m lies within one minute of T * 52.5/60: it is the first
\* whole minute with m * 60/52.5 >= T or, when 8 divides T, possibly the
\* minute after it (7T <= 8m <= 7T + 8).
C8_NightWithinOneMinute ==
    LET T == jornada_diaria_minutos[1]
        m == current_dt - t_entrada
        fimNoite == IF t_entrada >= FimDia THEN MinutesPerDay + InicioDia
                    ELSE InicioDia
    IN  (pc = "fwd_done"
            /\ jornada_diaria_minutos = Float(T)
            /\ intervalo_minutos = 0
            /\ (t_entrada >= FimDia \/ t_entrada < InicioDia)
            /\ current_dt <= fimNoite)
        => /\ 8 * m >= 7 * T
           /\ 8 * m <= 7 * T + 8
           /\ (8 * (m - 1) >= 7 * T => T % 8 = 0)

\* entry 22:00, target 108: 95 real minutes, exit 23:35
C8_Witness ==
    /\ pc = "fwd_done"
    /\ entrada = Time(22, 0)
    /\ intervalo_minutos = 0
    /\ jornada_diaria_minutos = Float(108)
    /\ current_dt - t_entrada = 95
    /\ ret[1].saida_str = [hhmm |-> <<23, 35>>, suffix |-> ""]

\* C9: a step of the forward loop either inserts the break, which happens
\* only while no break was inserted and moves the clock and the real-minute
\* counter by intervalo_minutos and leaves the accumulator alone, or works
\* one minute, which raises the real-minute counter by 1 and the
\* accumulator by 1 in a day hour and by 60/52.5 in a night hour and never
\* lowers it, or leaves the loop; a break once inserted stays.
C9_Steps ==
    [][pc = "fwd_loop" =>
         \/ /\ pc' = "fwd_loop"
            /\ intervalo_minutos > 0
            /\ intervalo_start_dt = None
            /\ intervalo_start_dt' = Some(current_dt)
            /\ current_dt' = current_dt + intervalo_minutos
            /\ real_minutes_worked' = real_minutes_worked + intervalo_minutos
            /\ effective_minutes_worked' = effective_minutes_worked
         \/ /\ pc' = "fwd_loop"
            /\ intervalo_start_dt' = intervalo_start_dt
            /\ current_dt' = current_dt + 1
            /\ real_minutes_worked' = real_minutes_worked + 1
            /\ effective_minutes_worked' =
                  FAdd(effective_minutes_worked,
                       IF Hour(current_dt) >= 22 \/ Hour(current_dt) < 5
                       THEN FATOR_HORA_NOTURNA ELSE Float(1))
            /\ FLess(effective_minutes_worked, effective_minutes_worked')
         \/ /\ pc' = "fwd_saida"
            /\ intervalo_start_dt' = intervalo_start_dt
            /\ current_dt' = current_dt
            /\ real_minutes_worked' = real_minutes_worked
            /\ effective_minutes_worked' = effective_minutes_worked
      ]_vars

\* the break was inserted and work went on after it, into the night
C9_Witness ==
    /\ pc = "fwd_loop"
    /\ intervalo_minutos = 60
    /\ intervalo_start_dt # None
    /\ real_minutes_worked > 240 + intervalo_minutos
    /\ Hour(current_dt) >= 22
    /\ FLess(Float(300), effective_minutes_worked)

\* C10 as stated: the real minutes a forward call simulates never exceed
\* the safety bound.
C10_Bound ==
    pc \in {"fwd_loop", "fwd_saida", "fwd_done"}
        => real_minutes_worked <= LIMITE_SEGURO

\* C10 amended: every forward call returns, and the real minutes it has
\* then simulated do not exceed the safety bound plus the one minute of the
\* last step, or 240 + intervalo_minutos when the break alone passes the
\* bound.
C10_TerminatesBounded ==
    (pc = "fwd_loop")
        ~> (pc = "fwd_done"
              /\ \/ real_minutes_worked <= LIMITE_SEGURO + 1
                 \/ real_minutes_worked <= 240 + intervalo_minutos)

\* a call that the safety bound stopped, 2001 real minutes after the entry
C10_Witness ==
    /\ pc = "fwd_done"
    /\ FLess(effective_minutes_worked, jornada_diaria_minutos)
    /\ real_minutes_worked = LIMITE_SEGURO + 1

\* C11: with a break > 0, whenever the forward loop stands at a minute at
\* which the accumulator is at least 240 and no break was inserted yet, its
\* next step inserts the break there, before another minute is worked and
\* before the call leaves the loop; so a call inserts no break only when
\* the break is 0 or the accumulator never reaches 240.
C11_BreakRule ==
    [][(pc = "fwd_loop"
           /\ intervalo_minutos > 0
           /\ FGeq(effective_minutes_worked, Float(240))
           /\ intervalo_start_dt = None)
       => /\ pc' = "fwd_loop"
          /\ intervalo_start_dt' = Some(current_dt)
          /\ effective_minutes_worked' = effective_minutes_worked
      ]_vars

====
